---- MODULE Spec2Model ----
(***************************************************************************)
(* Model of regime_app.py: the rolling statistics, the regime classifier,  *)
(* the pipeline calculate_regimes_nb and forecast_next_regime.             *)
(*                                                                         *)
(* Numbers.  A float is a record [nan, n, d]: NaN, or the rational n/d in  *)
(* lowest terms with d > 0.  Sums, products, quotients and comparisons of  *)
(* prices, returns and means are exact.  np.sqrt and the product with      *)
(* np.sqrt(365) are rounded down to a multiple of 1/FixScale (two decimal  *)
(* digits), as a float operation rounds to its precision.  A comparison    *)
(* with NaN is false, as in IEEE 754.                                      *)
(*                                                                         *)
(* Scale.  The literals 21/88/21/365 that fetch_and_process_data and       *)
(* forecast_next_regime pass as windows are modelled by MA_SHORT_WINDOW,   *)
(* MA_LONG_WINDOW, VOL_SHORT_WINDOW and AVG_VOL_WINDOW at a reduced scale  *)
(* (2 = 2 < 3 <= 3, ma_short >= 2), so that series of a few bars leave     *)
(* warm-up and have a defined volatility threshold, as the program's       *)
(* series of some thousand bars do.                                        *)
(* One data frame (one ticker) is modelled: the frames of the two tickers  *)
(* share nothing and the button handler calls forecast_next_regime on each *)
(* of them in turn.                                                        *)
(***************************************************************************)
EXTENDS Integers, Sequences, FiniteSets, TLC

\* ---------------------------------------------------------------- bounds
MaxLen == 3
MaxPrice == 3
MaxWin == 3
MaxClassLen == 1
FixScale == 100

\* ------------------------------------------------- program constants
MA_SHORT_WINDOW == 2
MA_LONG_WINDOW == 3
VOL_SHORT_WINDOW == 2
AVG_VOL_WINDOW == 3
DAYS_PER_YEAR == 365

\* ------------------------------------------------------------- numbers
RECURSIVE GCD(_, _)
GCD(a, b) ==
  IF b = 0 THEN a ELSE GCD(b, a % b)

Abs(k) ==
  IF k < 0 THEN -k ELSE k

NaN ==
  [nan |-> TRUE, n |-> 0, d |-> 1]

Rat(n, d) ==
  LET g == GCD(Abs(n), d)
  IN  [nan |-> FALSE, n |-> n \div g, d |-> d \div g]

Int2Rat(k) ==
  [nan |-> FALSE, n |-> k, d |-> 1]

IsNaN(x) ==
  x.nan

Add(x, y) ==
  IF x.nan \/ y.nan THEN NaN ELSE Rat(x.n * y.d + y.n * x.d, x.d * y.d)

Sub(x, y) ==
  IF x.nan \/ y.nan THEN NaN ELSE Rat(x.n * y.d - y.n * x.d, x.d * y.d)

Mul(x, y) ==
  IF x.nan \/ y.nan THEN NaN ELSE Rat(x.n * y.n, x.d * y.d)

\* x / y.  The divisors of the program are prices (positive) and lengths of
\* non-empty windows, so y = 0 (inf or NaN in floats) is never reached.
Div(x, y) ==
  IF x.nan \/ y.nan \/ y.n = 0 THEN NaN
  ELSE IF y.n > 0 THEN Rat(x.n * y.d, x.d * y.n)
  ELSE Rat(-(x.n * y.d), x.d * (-y.n))

Gt(x, y) ==
  /\ ~x.nan
  /\ ~y.nan
  /\ x.n * y.d > y.n * x.d

Lt(x, y) ==
  /\ ~x.nan
  /\ ~y.nan
  /\ x.n * y.d < y.n * x.d

RECURSIVE ISqrtIn(_, _, _)
ISqrtIn(x, lo, hi) ==
  IF lo = hi THEN lo
  ELSE LET mid == (lo + hi + 1) \div 2
       IN  IF mid * mid <= x THEN ISqrtIn(x, mid, hi) ELSE ISqrtIn(x, lo, mid - 1)

ISqrt(x) ==
  ISqrtIn(x, 0, IF x < 46340 THEN x ELSE 46340)

\* The floor of x * FixScale^2 for a rational x >= 0, by long division in
\* base FixScale so that no intermediate product leaves the 32-bit range.
ScaleUp(x) ==
  LET q0 == x.n \div x.d
      r0 == x.n % x.d
      q1 == (r0 * FixScale) \div x.d
      r1 == (r0 * FixScale) % x.d
      q2 == (r1 * FixScale) \div x.d
  IN  q0 * FixScale * FixScale + q1 * FixScale + q2

np_sqrt(x) ==
  IF x.nan THEN NaN ELSE Rat(ISqrt(ScaleUp(x)), FixScale)

\* The product of two volatilities (multiples of 1/FixScale), rounded down to
\* a multiple of 1/FixScale as a float product is rounded to its precision.
FixMul(x, y) ==
  IF x.nan \/ y.nan THEN NaN
  ELSE LET p == Mul(x, y)
       IN  Rat((p.n * FixScale) \div p.d, FixScale)

RECURSIVE SumTo(_, _)
SumTo(s, k) ==
  IF k = 0 THEN Int2Rat(0) ELSE Add(SumTo(s, k - 1), s[k])

np_mean(s) ==
  Div(SumTo(s, Len(s)), Int2Rat(Len(s)))

np_std(s) ==
  LET m == np_mean(s)
      sq == [k \in 1..Len(s) |-> Mul(Sub(s[k], m), Sub(s[k], m))]
  IN  np_sqrt(np_mean(sq))

\* Mutant: the mean of no defined entry is 0 instead of NaN.
np_nanmean_zero(s) ==
  LET defined == SelectSeq(s, LAMBDA x : ~x.nan)
  IN  IF Len(defined) = 0 THEN Int2Rat(0) ELSE np_mean(defined)

np_nanmean(s) ==
  LET defined == SelectSeq(s, LAMBDA x : ~x.nan)
  IN  IF Len(defined) = 0 THEN NaN ELSE np_mean(defined)

pct_change(p) ==
  [k \in 1..Len(p) |->
     IF k = 1 THEN NaN ELSE Sub(Div(p[k], p[k - 1]), Int2Rat(1))]

\* np.sqrt(365)
SQRT_DAYS ==
  np_sqrt(Int2Rat(DAYS_PER_YEAR))

\* ------------------------------------------------- rolling statistics
\* Position k of a sequence is index i = k - 1 of the array.
\* Mutant: the warm-up lasts one index too long (i < window).
rolling_mean_nb_late(arr, window) ==
  [k \in 1..Len(arr) |->
     IF k - 1 < window THEN NaN
     ELSE np_mean(SubSeq(arr, k - window + 1, k))]

rolling_mean_nb(arr, window) ==
  [k \in 1..Len(arr) |->
     IF k - 1 < window - 1 THEN NaN
     ELSE np_mean(SubSeq(arr, k - window + 1, k))]

annualized_volatility_nb(returns, window) ==
  [k \in 1..Len(returns) |->
     IF k - 1 < window - 1 THEN NaN
     ELSE FixMul(np_std(SubSeq(returns, k - window + 1, k)), SQRT_DAYS)]

\* ---------------------------------------------------------- classifier
\* Mutant: a volatility equal to the threshold counts as above it (>=).
determine_regime_nb_vol_ge(price, ma_short, ma_long, vol_short, avg_vol_threshold) ==
  LET Above(k) == \/ Gt(vol_short[k], avg_vol_threshold)
                  \/ vol_short[k] = avg_vol_threshold
  IN  [k \in 1..Len(price) |->
         IF IsNaN(ma_short[k]) \/ IsNaN(ma_long[k]) \/ IsNaN(vol_short[k])
         THEN -1
         ELSE IF Gt(price[k], ma_short[k]) /\ Gt(price[k], ma_long[k])
              THEN (IF Above(k) THEN 1 ELSE 2)
         ELSE IF Lt(price[k], ma_short[k]) /\ Lt(price[k], ma_long[k])
              THEN (IF Above(k) THEN 5 ELSE 6)
         ELSE (IF Above(k) THEN 3 ELSE 4)]

\* Mutant: the bull test is not strict (price >= both averages).
determine_regime_nb_nonstrict(price, ma_short, ma_long, vol_short, avg_vol_threshold) ==
  LET Ge(x, y) == Gt(x, y) \/ (~x.nan /\ x = y)
  IN  [k \in 1..Len(price) |->
         IF IsNaN(ma_short[k]) \/ IsNaN(ma_long[k]) \/ IsNaN(vol_short[k])
         THEN -1
         ELSE IF Ge(price[k], ma_short[k]) /\ Ge(price[k], ma_long[k])
              THEN (IF Gt(vol_short[k], avg_vol_threshold) THEN 1 ELSE 2)
         ELSE IF Lt(price[k], ma_short[k]) /\ Lt(price[k], ma_long[k])
              THEN (IF Gt(vol_short[k], avg_vol_threshold) THEN 5 ELSE 6)
         ELSE (IF Gt(vol_short[k], avg_vol_threshold) THEN 3 ELSE 4)]

determine_regime_nb(price, ma_short, ma_long, vol_short, avg_vol_threshold) ==
  [k \in 1..Len(price) |->
     IF IsNaN(ma_short[k]) \/ IsNaN(ma_long[k]) \/ IsNaN(vol_short[k]) THEN -1
     ELSE IF Gt(price[k], ma_short[k]) /\ Gt(price[k], ma_long[k])
          THEN (IF Gt(vol_short[k], avg_vol_threshold) THEN 1 ELSE 2)
     ELSE IF Lt(price[k], ma_short[k]) /\ Lt(price[k], ma_long[k])
          THEN (IF Gt(vol_short[k], avg_vol_threshold) THEN 5 ELSE 6)
     ELSE (IF Gt(vol_short[k], avg_vol_threshold) THEN 3 ELSE 4)]

\* ------------------------------------------------------------ pipeline
\* Mutant: the short volatility is taken over avg_vol_window.
calculate_regimes_nb_volwin(price, returns, ma_short_window, ma_long_window, vol_short_window, avg_vol_window) ==
  LET ma_short == rolling_mean_nb(price, ma_short_window)
      ma_long == rolling_mean_nb(price, ma_long_window)
      vol_short == annualized_volatility_nb(returns, avg_vol_window)
      avg_vol_threshold ==
        np_nanmean(annualized_volatility_nb(returns, avg_vol_window))
  IN  [ma_short |-> ma_short,
       ma_long |-> ma_long,
       vol_short |-> vol_short,
       avg_vol_threshold |-> avg_vol_threshold,
       regimes |-> determine_regime_nb(price, ma_short, ma_long, vol_short,
                                       avg_vol_threshold)]

\* The locals of calculate_regimes_nb; the function returns .regimes.
calculate_regimes_nb(price, returns, ma_short_window, ma_long_window, vol_short_window, avg_vol_window) ==
  LET ma_short == rolling_mean_nb(price, ma_short_window)
      ma_long == rolling_mean_nb(price, ma_long_window)
      vol_short == annualized_volatility_nb(returns, vol_short_window)
      avg_vol_threshold ==
        np_nanmean(annualized_volatility_nb(returns, avg_vol_window))
  IN  [ma_short |-> ma_short,
       ma_long |-> ma_long,
       vol_short |-> vol_short,
       avg_vol_threshold |-> avg_vol_threshold,
       regimes |-> determine_regime_nb(price, ma_short, ma_long, vol_short,
                                       avg_vol_threshold)]

\* ------------------------------------------------------------ forecast
\* A frame is [price, Return, Regime]; column "price" is the ticker's column.
pd_concat(frame, new_row) ==
  [price |-> frame.price \o new_row.price,
   Return |-> frame.Return \o new_row.Return]

\* Mutants of forecast_next_regime, built from its steps.
ForecastWith(daily_data, hypothetical_price, recompute, inplace) ==
  LET new_row == [price |-> <<hypothetical_price>>, Return |-> <<NaN>>]
      concat == pd_concat(daily_data, new_row)
      extended_data ==
        IF recompute THEN [concat EXCEPT !.Return = pct_change(concat.price)]
        ELSE concat
      regime_indicator_extended ==
        calculate_regimes_nb(extended_data.price, extended_data.Return,
                             MA_SHORT_WINDOW, MA_LONG_WINDOW,
                             VOL_SHORT_WINDOW, AVG_VOL_WINDOW)
  IN  [outcome |-> "returned",
       daily_data |->
         IF inplace
         THEN [daily_data EXCEPT !.price = extended_data.price,
                                 !.Return = extended_data.Return]
         ELSE daily_data,
       extended_data |-> extended_data,
       projected_regime |->
         regime_indicator_extended.regimes[Len(extended_data.price)]]

ForecastRaised(daily_data) ==
  [outcome |-> "IndexError",
   daily_data |-> daily_data,
   extended_data |-> [price |-> << >>, Return |-> << >>],
   projected_regime |-> 0]

\* Mutant: the hypothetical price is last * change, not last * (1 + change).
forecast_next_regime_no_base(daily_data, hypothetical_change) ==
  IF Len(daily_data.price) = 0 THEN ForecastRaised(daily_data)
  ELSE ForecastWith(daily_data,
                    Mul(daily_data.price[Len(daily_data.price)],
                        hypothetical_change),
                    TRUE, FALSE)

\* Mutant: the returns are not recomputed, the new row keeps Return = NaN.
forecast_next_regime_stale_returns(daily_data, hypothetical_change) ==
  IF Len(daily_data.price) = 0 THEN ForecastRaised(daily_data)
  ELSE ForecastWith(daily_data,
                    Mul(daily_data.price[Len(daily_data.price)],
                        Add(Int2Rat(1), hypothetical_change)),
                    FALSE, FALSE)

\* Mutant: the new row is appended to the caller's frame in place.
forecast_next_regime_inplace(daily_data, hypothetical_change) ==
  IF Len(daily_data.price) = 0 THEN ForecastRaised(daily_data)
  ELSE ForecastWith(daily_data,
                    Mul(daily_data.price[Len(daily_data.price)],
                        Add(Int2Rat(1), hypothetical_change)),
                    TRUE, TRUE)

\* The record returned: the outcome of the call, the caller's frame after the
\* call (pd.concat builds a new frame, daily_data is only read), the transient
\* extended frame and the label returned (0 when the call raised).  The Regime
\* column that pd.concat gives the extended frame is never read and is left out.
forecast_next_regime(daily_data, hypothetical_change) ==
  IF Len(daily_data.price) = 0
  THEN [outcome |-> "IndexError",
        daily_data |-> daily_data,
        extended_data |-> [price |-> << >>, Return |-> << >>],
        projected_regime |-> 0]
  ELSE LET hypothetical_price ==
             Mul(daily_data.price[Len(daily_data.price)],
                 Add(Int2Rat(1), hypothetical_change))
           new_row == [price |-> <<hypothetical_price>>, Return |-> <<NaN>>]
           concat == pd_concat(daily_data, new_row)
           extended_data == [concat EXCEPT !.Return = pct_change(concat.price)]
           regime_indicator_extended ==
             calculate_regimes_nb(extended_data.price, extended_data.Return,
                                  MA_SHORT_WINDOW, MA_LONG_WINDOW,
                                  VOL_SHORT_WINDOW, AVG_VOL_WINDOW)
       IN  [outcome |-> "returned",
            daily_data |-> daily_data,
            extended_data |-> extended_data,
            projected_regime |->
              regime_indicator_extended.regimes[Len(extended_data.price)]]

\* The frame fetch_and_process_data builds for one ticker from its closes.
fetch_and_process_data(close_prices) ==
  LET Return == pct_change(close_prices)
  IN  [price |-> close_prices,
       Return |-> Return,
       Regime |-> calculate_regimes_nb(close_prices, Return,
                                       MA_SHORT_WINDOW, MA_LONG_WINDOW,
                                       VOL_SHORT_WINDOW, AVG_VOL_WINDOW).regimes]

\* --------------------------------------------------------------- state
VARIABLES
  daily_data,          \* the ticker's frame: columns price, Return, Regime
  data0,               \* the frame as fetch_and_process_data returned it
  pc,                  \* "idle" | "done": a call has returned or raised
  op,                  \* the entry point called last
  outcome,             \* "returned" or the exception raised
  windows,             \* the window arguments of calculate_regimes_nb
  run,                 \* the locals and result of calculate_regimes_nb
  hypothetical_change, \* the argument of forecast_next_regime
  extended_data,       \* its transient extended frame
  projected_regime,    \* its result
  cl_pc,               \* classifier on its own: "off" | "input" | "classified"
  cl_in,               \* the arguments of determine_regime_nb
  cl_out               \* the array it returns

vars ==
  <<daily_data, data0, pc, op, outcome, windows, run, hypothetical_change,
    extended_data, projected_regime, cl_pc, cl_in, cl_out>>

appVars ==
  <<daily_data, data0, pc, op, outcome, windows, run, hypothetical_change,
    extended_data, projected_regime>>

clVars ==
  <<cl_pc, cl_in, cl_out>>

NoWindows ==
  [ma_short_window |-> 0, ma_long_window |-> 0,
   vol_short_window |-> 0, avg_vol_window |-> 0]

NoRun ==
  [ma_short |-> << >>, ma_long |-> << >>, vol_short |-> << >>,
   avg_vol_threshold |-> NaN, regimes |-> << >>]

NoFrame ==
  [price |-> << >>, Return |-> << >>]

NoInput ==
  [price |-> << >>, ma_short |-> << >>, ma_long |-> << >>,
   vol_short |-> << >>, avg_vol_threshold |-> NaN]

\* Close prices: positive, up to MaxLen bars (possibly none).
PriceSeries ==
  UNION {[1..n -> {Int2Rat(v) : v \in 1..MaxPrice}] : n \in 0..MaxLen}

\* Hypothetical returns: -50%, 0%, +100%.
Changes ==
  {Rat(-1, 2), Int2Rat(0), Int2Rat(1)}

Windows ==
  1..MaxWin

AppIdle ==
  /\ pc = "idle"
  /\ op = "none"
  /\ outcome = "none"
  /\ windows = NoWindows
  /\ run = NoRun
  /\ hypothetical_change = NaN
  /\ extended_data = NoFrame
  /\ projected_regime = 0

Init ==
  /\ \E close_prices \in PriceSeries :
       daily_data = fetch_and_process_data(close_prices)
  /\ data0 = daily_data
  /\ AppIdle
  /\ cl_pc = "off"
  /\ cl_in = NoInput
  /\ cl_out = << >>

\* calculate_regimes_nb called on the frame's price and Return columns.
CalculateRegimes ==
  /\ pc = "idle"
  /\ \E ms \in Windows, ml \in Windows, vs \in Windows, av \in Windows :
       /\ windows' = [ma_short_window |-> ms, ma_long_window |-> ml,
                      vol_short_window |-> vs, avg_vol_window |-> av]
       /\ run' = calculate_regimes_nb(daily_data.price, daily_data.Return,
                                      ms, ml, vs, av)
  /\ pc' = "done"
  /\ op' = "calculate_regimes_nb"
  /\ outcome' = "returned"
  /\ UNCHANGED <<daily_data, data0, hypothetical_change, extended_data,
                 projected_regime>>
  /\ UNCHANGED clVars

\* forecast_next_regime called by the Forecast Regimes button.
ForecastNextRegime ==
  /\ pc = "idle"
  /\ \E r \in Changes :
       LET res == forecast_next_regime(daily_data, r)
       IN  /\ hypothetical_change' = r
           /\ daily_data' = res.daily_data
           /\ outcome' = res.outcome
           /\ extended_data' = res.extended_data
           /\ projected_regime' = res.projected_regime
  /\ pc' = "done"
  /\ op' = "forecast_next_regime"
  /\ UNCHANGED <<data0, windows, run>>
  /\ UNCHANGED clVars

\* The call is over: its locals and its transient frame are dropped.
Return ==
  /\ pc = "done"
  /\ pc' = "idle"
  /\ op' = "none"
  /\ outcome' = "none"
  /\ windows' = NoWindows
  /\ run' = NoRun
  /\ hypothetical_change' = NaN
  /\ extended_data' = NoFrame
  /\ projected_regime' = 0
  /\ UNCHANGED <<daily_data, data0>>
  /\ UNCHANGED clVars

Next ==
  \/ CalculateRegimes
  \/ ForecastNextRegime
  \/ Return

Spec ==
  Init /\ [][Next]_vars

\* ------------------------------------------- the classifier on its own
\* NaN and three values: every order of a price against two averages occurs.
ClassVals ==
  {NaN} \cup {Int2Rat(v) : v \in 1..3}

InitClassify ==
  /\ \E n \in 0..MaxClassLen :
       \E p \in [1..n -> ClassVals], s \in [1..n -> ClassVals],
          l \in [1..n -> ClassVals], v \in [1..n -> ClassVals],
          t \in ClassVals :
         cl_in = [price |-> p, ma_short |-> s, ma_long |-> l,
                  vol_short |-> v, avg_vol_threshold |-> t]
  /\ cl_pc = "input"
  /\ cl_out = << >>
  /\ daily_data = fetch_and_process_data(<< >>)
  /\ data0 = daily_data
  /\ AppIdle

Classify ==
  /\ cl_pc = "input"
  /\ cl_out' = determine_regime_nb(cl_in.price, cl_in.ma_short, cl_in.ma_long,
                                   cl_in.vol_short, cl_in.avg_vol_threshold)
  /\ cl_pc' = "classified"
  /\ UNCHANGED cl_in
  /\ UNCHANGED appVars

NextClassify ==
  Classify

SpecClassify ==
  InitClassify /\ [][NextClassify]_vars

\* =============================================================== claims
Labels ==
  {-1, 1, 2, 3, 4, 5, 6}

CalcDone ==
  pc = "done" /\ op = "calculate_regimes_nb"

ForecastDone ==
  pc = "done" /\ op = "forecast_next_regime"

Flat(p) ==
  \A j \in 1..Len(p) : p[j] = p[1]

StrictlyIncreasing(p) ==
  \A j \in 2..Len(p) : Gt(p[j], p[j - 1])

\* Index i (0-based) is position i + 1.
UndefinedBefore(out, first) ==
  \A k \in 1..Len(out) : (k - 1 < first) => IsNaN(out[k])

DefinedFrom(out, first) ==
  \A k \in 1..Len(out) : (k - 1 >= first) => ~IsNaN(out[k])

\* C1: determine_regime_nb returns one label per index of its input, chosen by
\* the rule: -1 if ma_short, ma_long or vol_short is undefined; else bull
\* (price above both averages) gives 1 or 2, bear (below both) gives 5 or 6,
\* anything else 3 or 4, the first of each pair exactly when vol_short is
\* above the threshold; bull and bear exclude each other.
C1_ClassifyRule ==
  cl_pc = "classified" =>
    /\ Len(cl_out) = Len(cl_in.price)
    /\ \A k \in 1..Len(cl_in.price) :
         LET p == cl_in.price[k]
             s == cl_in.ma_short[k]
             l == cl_in.ma_long[k]
             v == cl_in.vol_short[k]
             undefined == s.nan \/ l.nan \/ v.nan
             bull == Gt(p, s) /\ Gt(p, l)
             bear == Lt(p, s) /\ Lt(p, l)
             above == Gt(v, cl_in.avg_vol_threshold)
         IN  /\ cl_out[k] \in Labels
             /\ ~(bull /\ bear)
             /\ undefined => cl_out[k] = -1
             /\ (~undefined /\ bull /\ above) => cl_out[k] = 1
             /\ (~undefined /\ bull /\ ~above) => cl_out[k] = 2
             /\ (~undefined /\ bear /\ above) => cl_out[k] = 5
             /\ (~undefined /\ bear /\ ~above) => cl_out[k] = 6
             /\ (~undefined /\ ~bull /\ ~bear /\ above) => cl_out[k] = 3
             /\ (~undefined /\ ~bull /\ ~bear /\ ~above) => cl_out[k] = 4

\* A bear index whose volatility equals the threshold: labelled 6, not 5.
C1_Witness ==
  /\ cl_pc = "classified"
  /\ Len(cl_out) = 1
  /\ Lt(cl_in.price[1], cl_in.ma_short[1])
  /\ Lt(cl_in.price[1], cl_in.ma_long[1])
  /\ cl_in.vol_short[1] = cl_in.avg_vol_threshold
  /\ ~IsNaN(cl_in.vol_short[1])
  /\ cl_out[1] = 6

\* C2: where the three statistics are defined and the price equals ma_short
\* or ma_long, the label is sideways (3 or 4); a trend label (1, 2, 5, 6) is
\* given only where the price is strictly above both or strictly below both.
C2_TieIsSideways ==
  cl_pc = "classified" =>
    \A k \in 1..Len(cl_in.price) :
      LET p == cl_in.price[k]
          s == cl_in.ma_short[k]
          l == cl_in.ma_long[k]
          v == cl_in.vol_short[k]
      IN  /\ (~s.nan /\ ~l.nan /\ ~v.nan /\ (p = s \/ p = l))
               => cl_out[k] \in {3, 4}
          /\ cl_out[k] \in {1, 2} => (Gt(p, s) /\ Gt(p, l))
          /\ cl_out[k] \in {5, 6} => (Lt(p, s) /\ Lt(p, l))

\* The price equals both averages and the label is sideways.
C2_Witness ==
  /\ cl_pc = "classified"
  /\ Len(cl_out) = 1
  /\ ~IsNaN(cl_in.price[1])
  /\ cl_in.price[1] = cl_in.ma_short[1]
  /\ cl_in.price[1] = cl_in.ma_long[1]
  /\ ~IsNaN(cl_in.vol_short[1])
  /\ cl_out[1] \in {3, 4}

\* C3: on an empty price series both entry points end in
\* InsufficientDataError and return no value.
C3_EmptyRaisesInsufficientData ==
  (pc = "done" /\ Len(daily_data.price) = 0) =>
    outcome = "InsufficientDataError"

\* C4 as stated: each rolling statistic of the pipeline has the input's
\* length, is NaN at every index < w - 1 and, when n >= w, is defined at
\* every index >= w - 1 (the volatilities included).
C4_WarmupAsStated ==
  CalcDone =>
    LET n == Len(daily_data.price)
        vol_long == annualized_volatility_nb(daily_data.Return,
                                             windows.avg_vol_window)
        Warm(out, w) == /\ Len(out) = n
                        /\ UndefinedBefore(out, w - 1)
                        /\ (n >= w) => DefinedFrom(out, w - 1)
    IN  /\ Warm(run.ma_short, windows.ma_short_window)
        /\ Warm(run.ma_long, windows.ma_long_window)
        /\ Warm(run.vol_short, windows.vol_short_window)
        /\ Warm(vol_long, windows.avg_vol_window)

\* C4 amended: the rolling means are NaN at every index < w - 1 and defined
\* at every index >= w - 1; the volatilities of the return series, whose
\* entry 0 is NaN, are NaN at every index < w and defined at every index >= w;
\* every output has the input's length.
C4_Warmup ==
  CalcDone =>
    LET n == Len(daily_data.price)
        vol_long == annualized_volatility_nb(daily_data.Return,
                                             windows.avg_vol_window)
        Warm(out, first) == /\ Len(out) = n
                            /\ UndefinedBefore(out, first)
                            /\ DefinedFrom(out, first)
    IN  /\ Warm(run.ma_short, windows.ma_short_window - 1)
        /\ Warm(run.ma_long, windows.ma_long_window - 1)
        /\ Warm(run.vol_short, windows.vol_short_window)
        /\ Warm(vol_long, windows.avg_vol_window)

\* A run past both warm-ups: the mean is defined at index w - 1, the
\* volatility is NaN at index w - 1 and defined at index w.
C4_Witness ==
  /\ CalcDone
  /\ windows.ma_short_window = 2
  /\ windows.vol_short_window = 2
  /\ Len(daily_data.price) = 3
  /\ ~IsNaN(run.ma_short[2])
  /\ IsNaN(run.vol_short[2])
  /\ ~IsNaN(run.vol_short[3])

\* C5 as stated: on a strictly increasing series, with ma_short_window <
\* ma_long_window and vol_short_window < ma_long_window, the label is -1 at
\* every index <= ma_long_window - 2 and 1 or 2 at every later index.
C5_TrendAsStated ==
  (/\ CalcDone
   /\ StrictlyIncreasing(daily_data.price)
   /\ windows.ma_short_window < windows.ma_long_window
   /\ windows.vol_short_window < windows.ma_long_window) =>
    \A k \in 1..Len(run.regimes) :
      IF k - 1 <= windows.ma_long_window - 2
      THEN run.regimes[k] = -1
      ELSE run.regimes[k] \in {1, 2}

\* C5 amended: the same, for 2 <= ma_short_window < ma_long_window.
C5_Trend ==
  (/\ CalcDone
   /\ StrictlyIncreasing(daily_data.price)
   /\ 2 <= windows.ma_short_window
   /\ windows.ma_short_window < windows.ma_long_window
   /\ windows.vol_short_window < windows.ma_long_window) =>
    /\ Len(run.regimes) = Len(daily_data.price)
    /\ \A k \in 1..Len(run.regimes) :
         IF k - 1 <= windows.ma_long_window - 2
         THEN run.regimes[k] = -1
         ELSE run.regimes[k] \in {1, 2}

\* A strictly increasing series run past the long window: Bull at the end.
C5_Witness ==
  /\ CalcDone
  /\ StrictlyIncreasing(daily_data.price)
  /\ 2 <= windows.ma_short_window
  /\ windows.ma_short_window < windows.ma_long_window
  /\ windows.vol_short_window < windows.ma_long_window
  /\ Len(daily_data.price) >= windows.ma_long_window
  /\ run.regimes[Len(daily_data.price)] \in {1, 2}
  /\ run.regimes[1] = -1

\* C6 as stated: on every flat price series (of at least one bar) a forecast
\* with a hypothetical return of +100% returns a Bull-Trend label.
C6_FlatBullAsStated ==
  (/\ ForecastDone
   /\ Len(daily_data.price) >= 1
   /\ Flat(daily_data.price)
   /\ hypothetical_change = Int2Rat(1)) =>
    projected_regime \in {1, 2}

\* C6 amended: the same, for flat series of at least ma_long_window - 1 bars
\* (the extended series then reaches the long window).
C6_FlatBull ==
  (/\ ForecastDone
   /\ Len(daily_data.price) >= MA_LONG_WINDOW - 1
   /\ Flat(daily_data.price)
   /\ hypothetical_change = Int2Rat(1)) =>
    /\ outcome = "returned"
    /\ projected_regime \in {1, 2}

\* A flat series of exactly ma_long_window - 1 bars, doubled: Bull.
C6_Witness ==
  /\ ForecastDone
  /\ Len(daily_data.price) = MA_LONG_WINDOW - 1
  /\ Flat(daily_data.price)
  /\ hypothetical_change = Int2Rat(1)
  /\ extended_data.price[Len(extended_data.price)]
       = Mul(Int2Rat(2), daily_data.price[1])
  /\ projected_regime \in {1, 2}

\* C7: on a non-empty series P a forecast with return r returns the label
\* the pipeline gives the last index of P ++ [last(P) * (1 + r)], with the
\* returns recomputed over the extended series (the last one equals r) and
\* the threshold recomputed over all of it.
C7_ForecastIsFullRecompute ==
  (ForecastDone /\ Len(daily_data.price) >= 1) =>
    LET P == daily_data.price
        n == Len(P)
        r == hypothetical_change
        ext == Append(P, Mul(P[n], Add(Int2Rat(1), r)))
        full == calculate_regimes_nb(ext, pct_change(ext),
                                     MA_SHORT_WINDOW, MA_LONG_WINDOW,
                                     VOL_SHORT_WINDOW, AVG_VOL_WINDOW)
    IN  /\ outcome = "returned"
        /\ extended_data.price = ext
        /\ Len(extended_data.Return) = n + 1
        /\ IsNaN(extended_data.Return[1])
        /\ \A k \in 2..n : extended_data.Return[k] = daily_data.Return[k]
        /\ extended_data.Return[n + 1] = r
        /\ full.avg_vol_threshold
             = np_nanmean(annualized_volatility_nb(extended_data.Return,
                                                   AVG_VOL_WINDOW))
        /\ projected_regime = full.regimes[n + 1]

\* A forecast whose label is Above-Avg-Vol: the threshold of the extended
\* series is defined, while the series itself is too short to have one.
C7_Witness ==
  /\ ForecastDone
  /\ Len(daily_data.price) = AVG_VOL_WINDOW
  /\ Len(extended_data.price) = AVG_VOL_WINDOW + 1
  /\ extended_data.Return[Len(extended_data.Return)] = hypothetical_change
  /\ projected_regime \in {1, 3, 5}

\* C8: forecasts leave the caller's frame as it was before the first call
\* (price, Return and Regime columns), and the label a forecast returns is the
\* one a first forecast with the same argument returns on that frame.
C8_ForecastLeavesData ==
  /\ daily_data = data0
  /\ (ForecastDone /\ outcome = "returned") =>
       projected_regime
         = forecast_next_regime(data0, hypothetical_change).projected_regime

\* A forecast has returned: an extended frame exists, the caller's is intact.
C8_Witness ==
  /\ ForecastDone
  /\ outcome = "returned"
  /\ Len(extended_data.price) = Len(data0.price) + 1
  /\ Len(daily_data.price) = Len(data0.price)
  /\ Len(daily_data.Regime) = Len(data0.price)
  /\ projected_regime \in {1, 2, 3, 4, 5, 6}

\* C9: a call with a non-positive window or with ma_short_window >=
\* ma_long_window ends in InvalidWindowParametersError and gives no labels.
C9_InvalidWindowsRaise ==
  (/\ CalcDone
   /\ \/ windows.ma_short_window <= 0
      \/ windows.ma_long_window <= 0
      \/ windows.vol_short_window <= 0
      \/ windows.avg_vol_window <= 0
      \/ windows.ma_short_window >= windows.ma_long_window) =>
    /\ outcome = "InvalidWindowParametersError"
    /\ run.regimes = << >>

\* C10: when the long-window volatility has no defined entry (always so when
\* the series has at most avg_vol_window bars) the threshold is NaN, the run
\* returns, no label is 1, 3 or 5, and every index whose three statistics
\* are defined is labelled 2, 4 or 6.
C10_UndefinedThreshold ==
  CalcDone =>
    LET vol_long == annualized_volatility_nb(daily_data.Return,
                                             windows.avg_vol_window)
        none == \A k \in 1..Len(vol_long) : IsNaN(vol_long[k])
    IN  /\ (Len(daily_data.price) <= windows.avg_vol_window) => none
        /\ none =>
             /\ outcome = "returned"
             /\ IsNaN(run.avg_vol_threshold)
             /\ Len(run.regimes) = Len(daily_data.price)
             /\ \A k \in 1..Len(run.regimes) :
                  /\ run.regimes[k] \notin {1, 3, 5}
                  /\ (/\ ~IsNaN(run.ma_short[k])
                      /\ ~IsNaN(run.ma_long[k])
                      /\ ~IsNaN(run.vol_short[k]))
                       => run.regimes[k] \in {2, 4, 6}

\* A series of exactly avg_vol_window bars whose last index has defined
\* statistics, a positive short volatility and a Below-Avg-Vol label.
C10_Witness ==
  /\ CalcDone
  /\ Len(daily_data.price) = windows.avg_vol_window
  /\ IsNaN(run.avg_vol_threshold)
  /\ Gt(run.vol_short[Len(daily_data.price)], Int2Rat(0))
  /\ run.regimes[Len(daily_data.price)] \in {2, 4, 6}

====
